---- MODULE Spec2Model ----
(***************************************************************************)
(* A model of src/app.py (GBIF chat search): the retrying HTTP fetcher     *)
(* make_request_with_retry, the name resolvers get_institution_guid and    *)
(* get_collection_guid, the URL builder generate_gbif_search_url, and the  *)
(* session of main: extract_query_fields, display_results with its two     *)
(* paging buttons, and generate_table.                                     *)
(*                                                                         *)
(* Conventions.                                                            *)
(*  - A Python str is a sequence of lexemes (one-character strings, or a   *)
(*    whole identifier such as "limit" where its spelling is never looked  *)
(*    into).  None is the one-lexeme sequence NoneVal, which no str of the *)
(*    model equals.                                                        *)
(*  - A dict is a sequence of <<key, value>> pairs with distinct keys, in  *)
(*    insertion order (the order urlencode walks it in).                   *)
(*  - Time is counted in half seconds: base_delay=0.5 is 1, the jitter     *)
(*    random.uniform(0, 1) is any of 0..JitterMax.                         *)
(***************************************************************************)
EXTENDS Integers, Sequences, FiniteSets, TLC

\* ------------------------------------------------------------ bounds
\* make_request_with_retry is checked for max_retries in 0..MaxRetriesBound
MaxRetriesBound == 3
\* ... and base_delay in 0..MaxBaseDelay (half seconds)
MaxBaseDelay == 2
\* the fields mappings given to generate_gbif_search_url have at most MaxFields keys
MaxFields == 2
\* "Next" is followed up to page MaxPage of a search (pages count from 0)
MaxPage == 2

\* ------------------------------------------------------------ program constants
\* random.uniform(0, 1): one second, in half seconds
JitterMax == 2
\* max_retries=2, base_delay=0.5 of the two resolvers
ResolverMaxRetries == 2
ResolverBaseDelay == 1
\* max_retries=3, base_delay=1 of generate_table
TableMaxRetries == 3
TableBaseDelay == 2
\* limit=300 of the URL, the 300 of `current_page * 300` and of `len(df) < 300`
PageSize == 300

VARIABLES
    \* ---- the frame of make_request_with_retry
    max_retries,      \* argument
    base_delay,       \* argument (half seconds)
    attempt,          \* the loop variable
    rpc,              \* "idle" | "loop" | "returned" | "raised"
    rresult,          \* what the call returned or raised
    trace,            \* the requests.get calls and time.sleep calls of the call, in order
    last_delay,       \* the argument of the last time.sleep
    last_jitter,      \* what random.uniform(0, 1) returned for it
    caller,           \* who called: "top" | "institution" | "collection" | "table"
    \* ---- the frame of generate_gbif_search_url
    fields, institution_key, institution_code, collection_code, offset,
    processed_fields,
    guid,             \* [resolver kind -> what get_<kind>_guid returned]
    lookup,           \* [resolver kind -> its call: called, name, GETs issued, raised]
    bpc,              \* "idle" | "institution" | "collection" | "params" | "done" | "raised"
    url,              \* the returned URL
    bexc,             \* the exception generate_gbif_search_url raised
    \* ---- main and display_results: the session
    content,          \* what the language model answers to extract_query_fields
    tpc,              \* "idle" | "clicked" | "translated" | "failed" | "generating" |
                      \* "fetching" | "fragment" | "rerun" | "shown" | "skipped"
    current_page,     \* st.session_state.current_page
    click,            \* the button whose click started this run of the fragment
    view,             \* what the page shows below the search form
    run,              \* what started the running display_results:
                      \* "search" | "click" (a button was clicked) | "page" (st.rerun)
    oracle_calls,     \* calls of client.chat.completions.create since SEARCH was clicked
    first_fetch,      \* the first generate_table call of the search: its offset and URL
    got               \* the result list the occurrence search gave to the running
                      \* display_results: its length and the columns its records have

rvars == <<max_retries, base_delay, attempt, rpc, rresult, trace, last_delay, last_jitter,
           caller>>
bvars == <<fields, institution_key, institution_code, collection_code, offset,
           processed_fields, guid, lookup, bpc, url, bexc>>
mvars == <<content, tpc, current_page, click, view, run, oracle_calls, first_fetch,
           got>>
vars == <<rvars, bvars, mvars>>

\* ------------------------------------------------------------ Python values
NoneVal == <<"<None>">>

\* truthiness of None and of a str
Truthy(x) == x # NoneVal /\ x # <<>>

RECURSIVE lstrip(_)
lstrip(s) == IF s # <<>> /\ Head(s) = " " THEN lstrip(Tail(s)) ELSE s

RECURSIVE rstrip(_)
rstrip(s) == IF s # <<>> /\ s[Len(s)] = " " THEN rstrip(SubSeq(s, 1, Len(s) - 1)) ELSE s

\* str.strip()
strip(s) == rstrip(lstrip(s))

RECURSIVE Pow2(_)
Pow2(n) == IF n = 0 THEN 1 ELSE 2 * Pow2(n - 1)

\* ------------------------------------------------------------ the network
\* What one requests.get can do: raise, or return a response with a status and a body.
ExcClasses == {"ConnectionError", "Timeout", "HTTPError", "TooManyRedirects"}

\* the classes of requests.exceptions are all RequestException
IsInstance(cls, handled) ==
    \/ cls \in handled
    \/ "RequestException" \in handled /\ cls \in ExcClasses

Statuses == {200, 400, 499, 500}

NoBody == [json |-> FALSE, hasresults |-> FALSE, results |-> <<>>]

\* the bodies of a name-search response: not JSON; JSON without "results";
\* an empty "results"; a first result without "key"; results with keys
LookupBodies ==
    { NoBody,
      [json |-> TRUE, hasresults |-> FALSE, results |-> <<>>],
      [json |-> TRUE, hasresults |-> TRUE, results |-> <<>>],
      [json |-> TRUE, hasresults |-> TRUE, results |-> <<[haskey |-> FALSE, key |-> <<>>]>>],
      [json |-> TRUE, hasresults |-> TRUE, results |-> <<[haskey |-> TRUE, key |-> <<"G1">>]>>],
      [json |-> TRUE, hasresults |-> TRUE,
       results |-> <<[haskey |-> TRUE, key |-> <<"G2">>], [haskey |-> TRUE, key |-> <<"G1">>]>>] }

\* an occurrence record with the columns display_results needs
Record == [haskey |-> TRUE, key |-> <<"G1">>, recordedBy |-> <<"S">>]

\* ... and one that has a media list besides, of one object with an identifier
RecordWithMedia ==
    [haskey |-> TRUE, key |-> <<"G1">>, recordedBy |-> <<"S">>, media |-> <<(<<"U">>)>>]

\* the bodies of an occurrence-search response that LookupBodies lacks: one record
\* without media, one record with media but without recordedBy, and a page of limit=300
\* records with media
TableBodies ==
    { [json |-> TRUE, hasresults |-> TRUE, results |-> <<Record>>],
      [json |-> TRUE, hasresults |-> TRUE,
       results |-> <<[haskey |-> TRUE, key |-> <<"G1">>, media |-> <<(<<"U">>)>>]>>],
      [json |-> TRUE, hasresults |-> TRUE,
       results |-> [i \in 1 .. PageSize |-> RecordWithMedia]] }

NetOutcomes ==
    [raised : {"ConnectionError", "Timeout", "TooManyRedirects"}, status : {0}, body : {NoBody}]
    \cup [raised : {"none"}, status : Statuses \ {200}, body : {NoBody}]
    \cup [raised : {"none"}, status : {200}, body : LookupBodies \cup TableBodies]

\* random.uniform(0, 1): the two ends of the interval
Jitter == {0, JitterMax}

\* ------------------------------------------------------------ make_request_with_retry
NoExc == [cls |-> "none", status |-> 0]

\* requests.get(url, timeout=timeout); response.raise_for_status()
RaisedBy(o) ==
    IF o.raised # "none" THEN [cls |-> o.raised, status |-> 0]
    ELSE IF 400 <= o.status /\ o.status < 600 THEN [cls |-> "HTTPError", status |-> o.status]
    ELSE NoExc

\* RequestException(f"Failed after {max_retries + 1} attempts: {str(e)}")
FailedAfter(n, e) ==
    [kind |-> "raised", cls |-> "RequestException", status |-> 0, attempts |-> n,
     cause |-> e, body |-> NoBody]

\* raise e
Reraise(e) ==
    [kind |-> "raised", cls |-> e.cls, status |-> e.status, attempts |-> 0,
     cause |-> e, body |-> NoBody]

Retry(d) == [act |-> "retry", delay |-> d, result |-> Reraise(NoExc)]
Raise(r) == [act |-> "raise", delay |-> 0, result |-> r]

\* (mutant) the exhaustion test is off by one: the last attempt sleeps instead of raising
HandleConnectionTimeout_OffByOne(e, att, maxr, base, j) ==
    IF att = maxr + 1 THEN Raise(FailedAfter(maxr + 1, e))
    ELSE Retry(base * Pow2(att) + j)

\* except (ConnectionError, Timeout) as e
HandleConnectionTimeout(e, att, maxr, base, j) ==
    IF att = maxr THEN Raise(FailedAfter(maxr + 1, e))
    ELSE Retry(base * Pow2(att) + j)

\* (mutant) the client-error test is missing: a 4xx is retried like a 5xx
HandleHTTPError_NoClientTest(e, att, maxr, base, j) ==
    IF att = maxr THEN Raise(FailedAfter(maxr + 1, e))
    ELSE Retry(base * Pow2(att) + j)

\* (mutant) the client-error range starts one too high: a 400 is retried
HandleHTTPError_Above400(e, att, maxr, base, j) ==
    IF 400 < e.status /\ e.status < 500 THEN Raise(Reraise(e))
    ELSE IF att = maxr THEN Raise(FailedAfter(maxr + 1, e))
    ELSE Retry(base * Pow2(att) + j)

\* except requests.HTTPError as e
HandleHTTPError(e, att, maxr, base, j) ==
    IF 400 <= e.status /\ e.status < 500 THEN Raise(Reraise(e))
    ELSE IF att = maxr THEN Raise(FailedAfter(maxr + 1, e))
    ELSE Retry(base * Pow2(att) + j)

\* (mutant) linear instead of exponential backoff
HandleRequestException_Linear(e, att, maxr, base, j) ==
    IF att = maxr THEN Raise(Reraise(e))
    ELSE Retry(base * (att + 1) + j)

\* (mutant) sleeps after the last permitted attempt too
HandleRequestException_SleepAtLast(e, att, maxr, base, j) ==
    IF att = maxr + 1 THEN Raise(Reraise(e))
    ELSE Retry(base * Pow2(att) + j)

\* except RequestException as e
HandleRequestException(e, att, maxr, base, j) ==
    IF att = maxr THEN Raise(Reraise(e))
    ELSE Retry(base * Pow2(att) + j)

\* the except clauses, in their order
Handle(e, att, maxr, base, j) ==
    IF IsInstance(e.cls, {"ConnectionError", "Timeout"})
        THEN HandleConnectionTimeout(e, att, maxr, base, j)
    ELSE IF IsInstance(e.cls, {"HTTPError"}) THEN HandleHTTPError(e, att, maxr, base, j)
    ELSE HandleRequestException(e, att, maxr, base, j)

GetEvent(o) == [ev |-> "get", raised |-> o.raised, status |-> o.status]
SleepEvent == [ev |-> "sleep", raised |-> "none", status |-> 0]

NoResult ==
    [kind |-> "none", cls |-> "none", status |-> 0, attempts |-> 0, cause |-> NoExc,
     body |-> NoBody]

\* ------------------------------------------------------------ dict
Keys(d) == {d[i][1] : i \in 1 .. Len(d)}
HasKey(d, k) == k \in Keys(d)
\* d[k]
Get(d, k) == d[CHOOSE i \in 1 .. Len(d) : d[i][1] = k][2]
\* d[k] = v: in place when k is a key, appended otherwise
Set(d, k, v) ==
    IF HasKey(d, k) THEN [i \in 1 .. Len(d) |-> IF d[i][1] = k THEN <<k, v>> ELSE d[i]]
    ELSE Append(d, <<k, v>>)
\* del d[k]
RECURSIVE Del(_, _)
Del(d, k) ==
    IF d = <<>> THEN <<>>
    ELSE IF Head(d)[1] = k THEN Tail(d)
    ELSE <<Head(d)>> \o Del(Tail(d), k)

\* ------------------------------------------------------------ the resolvers
Kinds == {"institution", "collection"}

NoLookup == [called |-> FALSE, name |-> NoneVal, gets |-> 0, raised |-> "none"]

\* (mutant) the test forgets strip(): a name of blanks goes to the network
BlankName_NoStrip(name) == ~Truthy(name)

\* if not institution_name or not institution_name.strip()
BlankName(name) == ~Truthy(name) \/ ~Truthy(strip(name))

Returns(v) == [raised |-> "none", value |-> v]
Raises(c) == [raised |-> c, value |-> NoneVal]

\* response.json() and the lines after it, in get_institution_guid and
\* get_collection_guid alike, for the parsed body `data`
FirstKey(data) ==
    IF data.hasresults /\ data.results # <<>> /\ Len(data.results) > 0
    THEN IF data.results[1].haskey THEN Returns(data.results[1].key) ELSE Raises("KeyError")
    ELSE Returns(NoneVal)

\* the try block of get_institution_guid, from what make_request_with_retry gave:
\* except (RequestException, json.JSONDecodeError) maps to None, the rest propagates
get_institution_guid(r) ==
    IF r.kind = "raised"
    THEN IF IsInstance(r.cls, {"RequestException"}) THEN Returns(NoneVal) ELSE Raises(r.cls)
    ELSE IF ~r.body.json THEN Returns(NoneVal)
    ELSE FirstKey(r.body)

\* the try block of get_collection_guid
get_collection_guid(r) ==
    IF r.kind = "raised"
    THEN IF IsInstance(r.cls, {"RequestException"}) THEN Returns(NoneVal) ELSE Raises(r.cls)
    ELSE IF ~r.body.json THEN Returns(NoneVal)
    ELSE FirstKey(r.body)

\* ------------------------------------------------------------ urlencode
\* quote_plus of one lexeme
quote_plus(c) ==
    CASE c = " " -> "+"
      [] c = "&" -> "%26"
      [] c = "=" -> "%3D"
      [] OTHER -> c

\* str(v), then quote_plus
QuoteValue(v) == IF v = NoneVal THEN <<"None">> ELSE [i \in 1 .. Len(v) |-> quote_plus(v[i])]

\* "&".join(parts)
RECURSIVE JoinAmp(_)
JoinAmp(parts) ==
    IF parts = <<>> THEN <<>>
    ELSE IF Len(parts) = 1 THEN parts[1]
    ELSE parts[1] \o <<"&">> \o JoinAmp(Tail(parts))

\* urlencode(d)
urlencode(d) == JoinAmp([i \in 1 .. Len(d) |-> <<quote_plus(d[i][1]), "=">> \o QuoteValue(d[i][2])])

Digit(n) == CASE n = 0 -> "0" [] n = 1 -> "1" [] n = 2 -> "2" [] n = 3 -> "3" [] n = 4 -> "4"
              [] n = 5 -> "5" [] n = 6 -> "6" [] n = 7 -> "7" [] n = 8 -> "8" [] n = 9 -> "9"

\* str(n) of an int n >= 0
RECURSIVE Str(_)
Str(n) == IF n < 10 THEN <<Digit(n)>> ELSE Str(n \div 10) \o <<Digit(n % 10)>>

GBIF_API_BASE_URL == "https://api.gbif.org/v1/occurrence/search"

\* ------------------------------------------------------------ generate_gbif_search_url
\* params = [] ... return base_url
BuildUrl(pf, ikey, icode, ccode, off) ==
    LET params ==
            (IF Truthy(ikey) THEN <<(<<"institutionKey", "=">> \o ikey)>> ELSE <<>>)
            \o (IF Truthy(icode) /\ Truthy(strip(icode))
                THEN <<(<<"institutionCode", "=">> \o icode)>> ELSE <<>>)
            \o (IF Truthy(ccode) /\ Truthy(strip(ccode))
                THEN <<(<<"collectionCode", "=">> \o ccode)>> ELSE <<>>)
        base_url ==
            <<GBIF_API_BASE_URL, "?">> \o urlencode(pf)
            \o <<"&", "limit", "=", "3", "0", "0", "&", "offset", "=">> \o Str(off)
            \o <<"&", "basisOfRecord", "=", "PRESERVED_SPECIMEN">>
    IN  IF params # <<>> THEN base_url \o <<"&">> \o JoinAmp(params) ELSE base_url

\* if <kind>_guid: processed_fields["<kind>Key"] = <kind>_guid; del processed_fields["<kind>"]
WithGuid(pf, kind, g) ==
    Del(IF Truthy(g) THEN Set(pf, IF kind = "institution" THEN "institutionKey"
                                                           ELSE "collectionKey", g)
        ELSE pf,
        kind)

\* make_request_with_retry(search_url, max_retries=2, base_delay=0.5) is entered
CallRetry(kind) ==
    /\ max_retries' = ResolverMaxRetries
    /\ base_delay' = ResolverBaseDelay
    /\ attempt' = 0 /\ rpc' = "loop" /\ rresult' = NoResult /\ trace' = <<>>
    /\ last_delay' = 0 /\ last_jitter' = 0 /\ caller' = kind

\* the frame of make_request_with_retry is gone
LeaveRetry ==
    /\ max_retries' = 0 /\ base_delay' = 0
    /\ attempt' = 0 /\ rpc' = "idle" /\ rresult' = NoResult /\ trace' = <<>>
    /\ last_delay' = 0 /\ last_jitter' = 0 /\ caller' = "top"

\* the return of generate_gbif_search_url
ReturnUrl(pf) ==
    /\ url' = BuildUrl(pf, institution_key, institution_code, collection_code, offset)
    /\ bpc' = "done"

\* `if "institution" in processed_fields`, up to the request of get_institution_guid
InstitutionStep ==
    /\ bpc = "institution"
    /\ \/ /\ ~HasKey(processed_fields, "institution")
          /\ bpc' = "collection"
          /\ UNCHANGED <<processed_fields, guid, lookup, rvars>>
       \/ /\ HasKey(processed_fields, "institution")
          /\ BlankName(Get(processed_fields, "institution"))
          /\ guid' = [guid EXCEPT !["institution"] = NoneVal]
          /\ lookup' = [lookup EXCEPT !["institution"] =
                           [NoLookup EXCEPT !.called = TRUE,
                                            !.name = Get(processed_fields, "institution")]]
          /\ processed_fields' = WithGuid(processed_fields, "institution", NoneVal)
          /\ bpc' = "collection"
          /\ UNCHANGED rvars
       \/ /\ HasKey(processed_fields, "institution")
          /\ ~BlankName(Get(processed_fields, "institution"))
          /\ lookup' = [lookup EXCEPT !["institution"] =
                           [NoLookup EXCEPT !.called = TRUE,
                                            !.name = Get(processed_fields, "institution")]]
          /\ CallRetry("institution")
          /\ bpc' = "institution_wait"
          /\ UNCHANGED <<processed_fields, guid>>
    /\ UNCHANGED <<fields, institution_key, institution_code, collection_code, offset, url,
                   bexc, mvars>>

\* get_institution_guid after make_request_with_retry returned or raised r, having made
\* the calls t, and the lines of the builder that use its result
InstitutionReturn(r, t) ==
    /\ bpc = "institution_wait"
    /\ LET g == get_institution_guid(r)
           n == Cardinality({i \in 1 .. Len(t) : t[i].ev = "get"})
       IN  /\ lookup' = [lookup EXCEPT !["institution"].gets = n,
                                       !["institution"].raised = g.raised]
           /\ \/ /\ g.raised = "none"
                 /\ guid' = [guid EXCEPT !["institution"] = g.value]
                 /\ processed_fields' = WithGuid(processed_fields, "institution", g.value)
                 /\ bpc' = "collection"
                 /\ UNCHANGED bexc
              \/ /\ g.raised # "none"
                 /\ bexc' = g.raised
                 /\ bpc' = "raised"
                 /\ UNCHANGED <<guid, processed_fields>>
    /\ LeaveRetry
    /\ UNCHANGED <<fields, institution_key, institution_code, collection_code, offset, url,
                   mvars>>

\* `if "collection" in processed_fields`, up to the request of get_collection_guid, or
\* to the return of the URL when there is none
CollectionStep ==
    /\ bpc = "collection"
    /\ \/ /\ ~HasKey(processed_fields, "collection")
          /\ ReturnUrl(processed_fields)
          /\ UNCHANGED <<processed_fields, guid, lookup, rvars>>
       \/ /\ HasKey(processed_fields, "collection")
          /\ BlankName(Get(processed_fields, "collection"))
          /\ guid' = [guid EXCEPT !["collection"] = NoneVal]
          /\ lookup' = [lookup EXCEPT !["collection"] =
                           [NoLookup EXCEPT !.called = TRUE,
                                            !.name = Get(processed_fields, "collection")]]
          /\ processed_fields' = WithGuid(processed_fields, "collection", NoneVal)
          /\ ReturnUrl(processed_fields')
          /\ UNCHANGED rvars
       \/ /\ HasKey(processed_fields, "collection")
          /\ ~BlankName(Get(processed_fields, "collection"))
          /\ lookup' = [lookup EXCEPT !["collection"] =
                           [NoLookup EXCEPT !.called = TRUE,
                                            !.name = Get(processed_fields, "collection")]]
          /\ CallRetry("collection")
          /\ bpc' = "collection_wait"
          /\ UNCHANGED <<processed_fields, guid, url>>
    /\ UNCHANGED <<fields, institution_key, institution_code, collection_code, offset, bexc,
                   mvars>>

\* get_collection_guid after make_request_with_retry returned or raised r, having made
\* the calls t, and the rest of the builder
CollectionReturn(r, t) ==
    /\ bpc = "collection_wait"
    /\ LET g == get_collection_guid(r)
           n == Cardinality({i \in 1 .. Len(t) : t[i].ev = "get"})
       IN  /\ lookup' = [lookup EXCEPT !["collection"].gets = n,
                                       !["collection"].raised = g.raised]
           /\ \/ /\ g.raised = "none"
                 /\ guid' = [guid EXCEPT !["collection"] = g.value]
                 /\ processed_fields' = WithGuid(processed_fields, "collection", g.value)
                 /\ ReturnUrl(processed_fields')
                 /\ UNCHANGED bexc
              \/ /\ g.raised # "none"
                 /\ bexc' = g.raised
                 /\ bpc' = "raised"
                 /\ UNCHANGED <<guid, processed_fields, url>>
    /\ LeaveRetry
    /\ UNCHANGED <<fields, institution_key, institution_code, collection_code, offset, mvars>>

\* ------------------------------------------------------------ generate_table, display_results
\* nothing below the search form
NoView ==
    [params |-> FALSE, table |-> FALSE, rows |-> 0, image |-> FALSE, controls |-> FALSE,
     prev |-> FALSE, next |-> FALSE, msg |-> "none"]

\* no result list
NoGot == [n |-> 0, key |-> FALSE, recordedBy |-> FALSE, media |-> FALSE]

\* the result list of what make_request_with_retry gave, when it has one
ResultsOf(r) ==
    IF r.kind = "returned" /\ r.body.json /\ r.body.hasresults
    THEN [n |-> Len(r.body.results),
          key |-> \E i \in 1 .. Len(r.body.results) : r.body.results[i].haskey,
          recordedBy |-> \E i \in 1 .. Len(r.body.results) :
                             "recordedBy" \in DOMAIN r.body.results[i],
          media |-> \E i \in 1 .. Len(r.body.results) :
                        "media" \in DOMAIN r.body.results[i]]
    ELSE NoGot

NoFetch == [made |-> FALSE, offset |-> 0, url |-> <<>>]

\* the frame of generate_gbif_search_url is gone; offset keeps the offset of the fetch
LeaveBuilder ==
    /\ processed_fields' = <<>>
    /\ guid' = [k \in Kinds |-> NoneVal]
    /\ lookup' = [k \in Kinds |-> NoLookup]
    /\ bpc' = "idle" /\ url' = <<>> /\ bexc' = "none"

\* what generate_table gives: an exception, or None after st.error(msg), or a DataFrame
NoTable(m) ==
    [raised |-> "none", df |-> FALSE, rows |-> 0, recordedBy |-> FALSE, media_url |-> FALSE,
     msg |-> m]

\* generate_table, from what make_request_with_retry gave.  response.json() raises the
\* JSONDecodeError of requests, a RequestException: the first except clause has it.
\* df["key"] is outside the try block.
generate_table(r) ==
    IF r.kind = "raised" THEN NoTable("fetch_failed")
    ELSE IF ~r.body.json THEN NoTable("fetch_failed")
    ELSE IF ~r.body.hasresults THEN NoTable("invalid_response")
    ELSE IF Len(r.body.results) = 0 THEN NoTable("no_values")
    ELSE IF \A i \in 1 .. Len(r.body.results) : ~r.body.results[i].haskey
         THEN [NoTable("none") EXCEPT !.raised = "KeyError"]
    ELSE [raised |-> "none", df |-> TRUE, rows |-> Len(r.body.results),
          recordedBy |-> \E i \in 1 .. Len(r.body.results) :
                             "recordedBy" \in DOMAIN r.body.results[i],
          media_url |-> \E i \in 1 .. Len(r.body.results) :
                            "media" \in DOMAIN r.body.results[i],
          msg |-> "none"]

\* (mutant) "Previous" is never disabled
PrevDisabled_Never(page) == FALSE

\* disabled=st.session_state.current_page == 0
PrevDisabled(page) == page = 0

\* (mutant) "Next" is disabled on an empty page only
NextDisabled_OnEmpty(n) == n = 0

\* disabled=len(df) < 300
NextDisabled(n) == n < PageSize

\* the lines of display_results after generate_table gave gt, on page `page`:
\* `except Exception` for what generate_table or df["recordedBy"] raised; nothing but
\* the message of generate_table when df is None; else the table and the two buttons
Render(gt, page) ==
    IF gt.raised # "none" THEN [NoView EXCEPT !.msg = "went_wrong"]
    ELSE IF ~gt.df THEN [NoView EXCEPT !.msg = gt.msg]
    ELSE IF ~gt.recordedBy THEN [NoView EXCEPT !.msg = "went_wrong"]
    ELSE [params |-> FALSE, table |-> TRUE, rows |-> gt.rows, image |-> gt.media_url,
          controls |-> TRUE,
          prev |-> ~PrevDisabled(page), next |-> ~NextDisabled(gt.rows), msg |-> "none"]

\* df = generate_table(search_url, condensed_table): make_request_with_retry(search_url,
\* max_retries=3, base_delay=1) is entered
GenerateTable ==
    /\ tpc = "generating" /\ bpc = "done"
    /\ max_retries' = TableMaxRetries
    /\ base_delay' = TableBaseDelay
    /\ attempt' = 0 /\ rpc' = "loop" /\ rresult' = NoResult /\ trace' = <<>>
    /\ last_delay' = 0 /\ last_jitter' = 0 /\ caller' = "table"
    /\ tpc' = "fetching"
    /\ first_fetch' = IF first_fetch.made THEN first_fetch
                      ELSE [made |-> TRUE, offset |-> offset, url |-> url]
    /\ UNCHANGED <<bvars, content, current_page, click, view, run, oracle_calls, got>>

\* generate_table after make_request_with_retry returned or raised r, and the rest of
\* display_results: the table, the buttons, and the handler of the button that was
\* clicked (st.button gives True in the run its click started), which ends in st.rerun
TableReturn(r, t) ==
    /\ tpc = "fetching"
    /\ LET v == Render(generate_table(r), current_page)
       IN  /\ view' = [v EXCEPT !.params = view.params]
           /\ \/ /\ v.controls /\ click = "prev"
                 /\ current_page' = current_page - 1
                 /\ tpc' = "rerun" /\ run' = "page"
              \/ /\ v.controls /\ click = "next"
                 /\ current_page' = current_page + 1
                 /\ tpc' = "rerun" /\ run' = "page"
              \/ /\ ~(v.controls /\ click # "none")
                 /\ tpc' = "shown"
                 /\ UNCHANGED <<current_page, run>>
    /\ click' = "none"
    /\ got' = ResultsOf(r)
    /\ LeaveRetry /\ LeaveBuilder
    /\ UNCHANGED <<fields, institution_key, institution_code, collection_code, offset,
                   content, oracle_calls, first_fetch>>

\* `except Exception` of display_results for what generate_gbif_search_url raised
DisplayFailed ==
    /\ tpc = "generating" /\ bpc = "raised"
    /\ view' = [NoView EXCEPT !.params = view.params, !.msg = "went_wrong"]
    /\ tpc' = "shown" /\ click' = "none"
    /\ LeaveBuilder
    /\ UNCHANGED <<rvars, fields, institution_key, institution_code, collection_code,
                   offset, content, current_page, run, oracle_calls, first_fetch, got>>

\* ------------------------------------------------------------ the loop of the fetcher
\* make_request_with_retry returns or raises r, having made the calls t: control is
\* back in the caller, which runs on to its next request or to its end
Resume(r, t) ==
    \/ /\ caller = "top"
       /\ rpc' = r.kind /\ rresult' = r /\ trace' = t
       /\ UNCHANGED <<max_retries, base_delay, attempt, last_delay, last_jitter, caller>>
       /\ UNCHANGED <<bvars, mvars>>
    \/ /\ caller = "institution"
       /\ InstitutionReturn(r, t)
    \/ /\ caller = "collection"
       /\ CollectionReturn(r, t)
    \/ /\ caller = "table"
       /\ TableReturn(r, t)

\* One iteration of `for attempt in range(max_retries + 1)`: the request, and what
\* its except clause does (return, raise, or sleep and go round again).
Attempt ==
    /\ rpc = "loop"
    /\ attempt <= max_retries
    /\ \E o \in NetOutcomes :
         LET e == RaisedBy(o)
             t == Append(trace, GetEvent(o))
         IN  \/ /\ e = NoExc
                /\ Resume([NoResult EXCEPT !.kind = "returned", !.status = o.status,
                                           !.body = o.body], t)
             \/ /\ e # NoExc
                /\ Handle(e, attempt, max_retries, base_delay, 0).act = "raise"
                /\ Resume(Handle(e, attempt, max_retries, base_delay, 0).result, t)
             \/ /\ e # NoExc
                /\ Handle(e, attempt, max_retries, base_delay, 0).act = "retry"
                /\ \E j \in Jitter :
                      /\ last_delay' = Handle(e, attempt, max_retries, base_delay, j).delay
                      /\ last_jitter' = j
                /\ trace' = Append(t, SleepEvent)
                /\ attempt' = attempt + 1
                /\ UNCHANGED <<rpc, rresult, max_retries, base_delay, caller>>
                /\ UNCHANGED <<bvars, mvars>>

\* ------------------------------------------------------------ the inputs
NameValues == {NoneVal, <<>>, <<" ">>, <<"R", " ", "M">>}
OtherValues == {<<"5">>, <<"a", " ", "&", "=">>}
ValuesOf(k) ==
    IF k \in Kinds THEN NameValues
    ELSE IF k = "scientificName" THEN {<<"a", " ", "&", "=">>}
    ELSE {<<"5">>}
\* the keys the language model may answer with; the last two are not among the keys
\* extract_query_fields asks for
FieldKeys == {"scientificName", "institution", "collection", "institutionKey", "limit"}
FieldPairs == {<<k, v>> : k \in FieldKeys, v \in NameValues \cup OtherValues}
FieldsSet ==
    {d \in UNION {[1 .. n -> {p \in FieldPairs : p[2] \in ValuesOf(p[1])}] : n \in 0 .. MaxFields} :
        \A i, j \in 1 .. Len(d) : d[i][1] = d[j][1] => i = j}

\* ------------------------------------------------------------ extract_query_fields, main
\* st.session_state.search_params["fields"] = None (no dict equals it)
NoFields == <<(<<"<None>", NoneVal>>)>>

\* the keys the system prompt of extract_query_fields asks for
RecognizedKeys ==
    {"scientificName", "locality", "continent", "country", "stateProvince", "recordedBy",
     "eventDate", "recordNumber", "mediaType", "institution", "collection"}

\* client.chat.completions.create(...) raised, or answered `c.obj` as JSON, or answered
\* text that is no JSON; return json.loads(extracted)
extract_query_fields(c) ==
    IF c.raised THEN [raised |-> "APIError", value |-> NoFields]
    ELSE IF ~c.json THEN [raised |-> "JSONDecodeError", value |-> NoFields]
    ELSE [raised |-> "none", value |-> c.obj]

\* (mutant) display_results tests the fields for emptiness only
HasFields_NotEmpty(f) == f # <<>>

\* st.session_state.search_params and st.session_state.search_params["fields"]
HasFields(f) == f # NoFields /\ f # <<>>

\* (mutant) a new search keeps the page counter where the last search left it
Search_KeepsPage ==
    /\ tpc = "clicked"
    /\ current_page' = current_page
    /\ oracle_calls' = oracle_calls + 1
    /\ LET r == extract_query_fields(content)
       IN  \/ /\ r.raised = "none"
              /\ fields' = r.value
              /\ view' = [NoView EXCEPT !.params = TRUE]
              /\ tpc' = "translated"
           \/ /\ r.raised # "none"
              /\ fields' = NoFields
              /\ view' = [NoView EXCEPT !.msg = "translation_failed"]
              /\ tpc' = "failed"
    /\ click' = "none" /\ run' = "search" /\ first_fetch' = NoFetch /\ got' = NoGot
    /\ UNCHANGED <<institution_key, institution_code, collection_code, offset,
                   processed_fields, guid, lookup, bpc, url, bexc, content, rvars>>

\* `if search_clicked and user_query:` of main, to the end of its try
Search ==
    /\ tpc = "clicked"
    /\ current_page' = 0
    /\ oracle_calls' = oracle_calls + 1
    /\ LET r == extract_query_fields(content)
       IN  \/ /\ r.raised = "none"
              /\ fields' = r.value
              /\ view' = [NoView EXCEPT !.params = TRUE]
              /\ tpc' = "translated"
           \/ /\ r.raised # "none"
              /\ fields' = NoFields
              /\ view' = [NoView EXCEPT !.msg = "translation_failed"]
              /\ tpc' = "failed"
    /\ click' = "none" /\ run' = "search" /\ first_fetch' = NoFetch /\ got' = NoGot
    /\ UNCHANGED <<institution_key, institution_code, collection_code, offset,
                   processed_fields, guid, lookup, bpc, url, bexc, content, rvars>>

\* display_results, to its call of generate_gbif_search_url and the copy of the fields
DisplayResults ==
    /\ tpc \in {"translated", "failed", "fragment", "rerun"}
    /\ \/ /\ ~HasFields(fields)
          /\ tpc' = "skipped"
          /\ UNCHANGED <<offset, processed_fields, guid, lookup, bpc, url, bexc>>
       \/ /\ HasFields(fields)
          /\ offset' = current_page * PageSize
          /\ processed_fields' = fields
          /\ guid' = [k \in Kinds |-> NoneVal]
          /\ lookup' = [k \in Kinds |-> NoLookup]
          /\ url' = <<>> /\ bexc' = "none"
          /\ bpc' = "institution"
          /\ tpc' = "generating"
    /\ UNCHANGED <<fields, institution_key, institution_code, collection_code, content,
                   current_page, click, view, run, oracle_calls, first_fetch, rvars>>
    /\ got' = NoGot

\* a click on "Next →" of the page shown: the fragment runs again
ClickNext ==
    /\ tpc = "shown" /\ view.controls /\ view.next
    /\ current_page < MaxPage
    /\ click' = "next" /\ run' = "click" /\ tpc' = "fragment"
    /\ UNCHANGED <<rvars, bvars, content, current_page, view, oracle_calls, first_fetch,
                   got>>

\* a click on "← Previous" of the page shown
ClickPrevious ==
    /\ tpc = "shown" /\ view.controls /\ view.prev
    /\ click' = "prev" /\ run' = "click" /\ tpc' = "fragment"
    /\ UNCHANGED <<rvars, bvars, content, current_page, view, oracle_calls, first_fetch,
                   got>>

\* the frames of calls that have not started
RetryIdle ==
    /\ max_retries = 0 /\ base_delay = 0
    /\ attempt = 0 /\ rpc = "idle" /\ rresult = NoResult /\ trace = <<>>
    /\ last_delay = 0 /\ last_jitter = 0 /\ caller = "top"

BuilderIdle ==
    /\ fields = <<>> /\ institution_key = NoneVal /\ institution_code = NoneVal
    /\ collection_code = NoneVal /\ offset = 0 /\ processed_fields = <<>>
    /\ guid = [k \in Kinds |-> NoneVal]
    /\ lookup = [k \in Kinds |-> NoLookup]
    /\ bpc = "idle" /\ url = <<>> /\ bexc = "none"

MainIdle ==
    /\ content = [raised |-> FALSE, json |-> FALSE, obj |-> <<>>]
    /\ tpc = "idle" /\ current_page = 0
    /\ click = "none" /\ view = NoView /\ run = "none" /\ oracle_calls = 0
    /\ first_fetch = NoFetch /\ got = NoGot

\* ---- make_request_with_retry alone
\* a call make_request_with_retry(url, max_retries, base_delay) about to enter its loop
InitRetry ==
    /\ max_retries \in 0 .. MaxRetriesBound
    /\ base_delay \in 0 .. MaxBaseDelay
    /\ attempt = 0 /\ rpc = "loop" /\ rresult = NoResult /\ trace = <<>>
    /\ last_delay = 0 /\ last_jitter = 0 /\ caller = "top"
    /\ BuilderIdle /\ MainIdle

NextRetry == Attempt

SpecRetry == InitRetry /\ [][NextRetry]_vars

\* institution_code and collection_code: absent, blank, given
CodePairs == {<<NoneVal, NoneVal>>, <<<<" ">>, <<"C">>>>, <<<<"B">>, <<>>>>}

\* ---- generate_gbif_search_url alone
\* a call generate_gbif_search_url(fields, institution_key, institution_code,
\* collection_code, offset) after `processed_fields = fields.copy()`
InitBuilder ==
    /\ fields \in FieldsSet
    /\ institution_key \in {NoneVal, <<"K">>}
    /\ \E cp \in CodePairs : institution_code = cp[1] /\ collection_code = cp[2]
    /\ offset \in {0, 300}
    /\ processed_fields = fields
    /\ guid = [k \in Kinds |-> NoneVal]
    /\ lookup = [k \in Kinds |-> NoLookup]
    /\ bpc = "institution" /\ url = <<>> /\ bexc = "none"
    /\ RetryIdle /\ MainIdle

NextBuilder ==
    \/ InstitutionStep
    \/ CollectionStep
    \/ Attempt

SpecBuilder == InitBuilder /\ [][NextBuilder]_vars

\* ---- one submitted search: main, display_results, the builder
\* what the language model may answer
Contents ==
    {[raised |-> TRUE, json |-> FALSE, obj |-> <<>>],
     [raised |-> FALSE, json |-> FALSE, obj |-> <<>>]}
    \cup {[raised |-> FALSE, json |-> TRUE, obj |-> d] : d \in FieldsSet}

\* INSTITUTION_KEY of the environment, or the two text inputs shown without it
Settings ==
    {<<(<<"K">>), NoneVal, NoneVal>>, <<NoneVal, <<>>, <<>>>>, <<NoneVal, <<"B">>, <<"C">>>>}

\* a fresh session in which SEARCH was clicked with a query typed in
InitSearch ==
    /\ content \in Contents
    /\ tpc = "clicked" /\ current_page = 0
    /\ click = "none" /\ view = NoView /\ run = "none" /\ oracle_calls = 0
    /\ first_fetch = NoFetch /\ got = NoGot
    /\ fields = NoFields
    /\ \E st \in Settings :
          institution_key = st[1] /\ institution_code = st[2] /\ collection_code = st[3]
    /\ offset = 0 /\ processed_fields = <<>>
    /\ guid = [k \in Kinds |-> NoneVal]
    /\ lookup = [k \in Kinds |-> NoLookup]
    /\ bpc = "idle" /\ url = <<>> /\ bexc = "none"
    /\ RetryIdle

NextSearch ==
    \/ Search
    \/ DisplayResults
    \/ InstitutionStep
    \/ CollectionStep
    \/ Attempt

SpecSearch == InitSearch /\ [][NextSearch]_vars

\* ---- a session: searches one after the other, each paged through with the buttons
\* the answers of the language model in a session: none, no JSON, no field, a taxon,
\* an institution by name
AppContents ==
    {c \in Contents :
        /\ Len(c.obj) <= 1
        /\ \A i \in 1 .. Len(c.obj) :
              \/ c.obj[i][1] = "scientificName"
              \/ c.obj[i][1] = "institution" /\ ~BlankName(c.obj[i][2])}

\* SEARCH is clicked again, with another query typed in
SubmitSearch ==
    /\ tpc \in {"shown", "skipped"}
    /\ content' \in AppContents
    /\ tpc' = "clicked" /\ click' = "none" /\ oracle_calls' = 0
    /\ UNCHANGED <<rvars, bvars, current_page, view, run, first_fetch, got>>

InitApp ==
    /\ content \in AppContents
    /\ tpc = "clicked" /\ current_page = 0
    /\ click = "none" /\ view = NoView /\ run = "none" /\ oracle_calls = 0
    /\ first_fetch = NoFetch /\ got = NoGot
    /\ fields = NoFields
    /\ \E st \in Settings :
          institution_key = st[1] /\ institution_code = st[2] /\ collection_code = st[3]
    /\ offset = 0 /\ processed_fields = <<>>
    /\ guid = [k \in Kinds |-> NoneVal]
    /\ lookup = [k \in Kinds |-> NoLookup]
    /\ bpc = "idle" /\ url = <<>> /\ bexc = "none"
    /\ RetryIdle

NextApp ==
    \/ SubmitSearch
    \/ Search
    \/ DisplayResults
    \/ InstitutionStep
    \/ CollectionStep
    \/ DisplayFailed
    \/ GenerateTable
    \/ Attempt
    \/ ClickNext
    \/ ClickPrevious

SpecApp == InitApp /\ [][NextApp]_vars

\* ------------------------------------------------------------ properties of the fetcher
IsGet(ev) == ev.ev = "get"
IsClientError(ev) == IsGet(ev) /\ ev.raised = "none" /\ 400 <= ev.status /\ ev.status < 500
IsServerError(ev) == IsGet(ev) /\ ev.raised = "none" /\ 500 <= ev.status /\ ev.status < 600
IsSuccess(ev) == IsGet(ev) /\ ev.raised = "none" /\ ev.status < 400
IsFailure(ev) == IsGet(ev) /\ ~IsSuccess(ev)
GetIdx == {i \in 1 .. Len(trace) : IsGet(trace[i])}
SleepIdx == {i \in 1 .. Len(trace) : ~IsGet(trace[i])}
\* the failure an event stands for, as the except clause saw it
ExcOf(ev) == [cls |-> IF ev.raised = "none" THEN "HTTPError" ELSE ev.raised, status |-> ev.status]

\* C1: an attempt that ends with an HTTP 4xx status ends the call at once with that
\* error: it is the last event of the call (no sleep, no further attempt follows it),
\* whatever the attempt index and max_retries.
C1_ClientErrorEndsCall ==
    \A i \in GetIdx :
        IsClientError(trace[i]) =>
            /\ i = Len(trace)
            /\ rpc = "raised"
            /\ rresult.kind = "raised" /\ rresult.cls = "HTTPError"
            /\ rresult.status = trace[i].status

\* a 4xx on a later attempt than the first, with retries still left
C1_Witness ==
    /\ caller = "top" /\ rpc = "raised" /\ Len(trace) > 1
    /\ IsClientError(trace[Len(trace)]) /\ attempt > 0 /\ attempt < max_retries

\* C2 (as stated): a further attempt, or a sleep, follows only a connection failure,
\* a timeout or an HTTP 5xx.
C2_RetryOnlyOnThree ==
    \A i \in GetIdx :
        i < Len(trace) =>
            \/ trace[i].raised \in {"ConnectionError", "Timeout"}
            \/ IsServerError(trace[i])

\* C2 (amended): a further attempt, or a sleep, follows only a failed attempt that is
\* not an HTTP 4xx (a connection failure, a timeout, an HTTP 5xx or any other
\* request error); a success or an HTTP 4xx is the last event of the call.
C2_RetryOnAllButClientError ==
    /\ \A i \in GetIdx :
          i < Len(trace) => IsFailure(trace[i]) /\ ~IsClientError(trace[i])
    /\ \A i \in SleepIdx :
          i > 1 /\ IsFailure(trace[i - 1]) /\ ~IsClientError(trace[i - 1])

\* a request error that is none of the three is followed by a sleep and an attempt
C2_Witness ==
    /\ caller = "top" /\ Len(trace) >= 3
    /\ trace[1].raised = "TooManyRedirects" /\ ~IsGet(trace[2]) /\ IsGet(trace[3])

\* C3: the call makes at most max_retries + 1 attempts and never leaves its loop
\* without a result; it returns at the first success; when every attempt failed with a
\* retryable failure it made exactly max_retries + 1 attempts and raises an error that
\* describes the last failure.
C3_BoundedAttempts ==
    /\ Cardinality(GetIdx) <= max_retries + 1
    /\ rpc = "loop" => attempt <= max_retries /\ Cardinality(GetIdx) = attempt
    /\ rpc = "returned" =>
          /\ rresult.kind = "returned"
          /\ IsSuccess(trace[Len(trace)])
          /\ \A i \in GetIdx : i < Len(trace) => IsFailure(trace[i])
    /\ rpc = "raised" =>
          /\ rresult.kind = "raised"
          /\ rresult.cause = ExcOf(trace[Len(trace)])
          /\ (\A i \in GetIdx : IsFailure(trace[i]) /\ ~IsClientError(trace[i]))
                => /\ Cardinality(GetIdx) = max_retries + 1
                   /\ rresult.cls \in {"RequestException", "TooManyRedirects"}
                   /\ rresult.cls = "RequestException" => rresult.attempts = max_retries + 1

\* max_retries + 1 >= 3 retryable failures in a row, then the terminal error
C3_Witness ==
    /\ caller = "top" /\ rpc = "raised" /\ max_retries >= 2
    /\ Cardinality(GetIdx) = max_retries + 1
    /\ rresult.cls = "RequestException" /\ rresult.cause.cls = "HTTPError"

\* C4: the delay slept after failed attempt n is base_delay * 2^n plus a jitter in
\* [0, 1 s], whichever except clause retries, and its deterministic part does not
\* decrease from one sleep of the call to the next.
C4_Backoff ==
    [][attempt' = attempt + 1 =>
          /\ last_jitter' \in 0 .. JitterMax
          /\ last_delay' = base_delay * Pow2(attempt) + last_jitter'
          /\ attempt > 0 => last_delay' - last_jitter' >= last_delay - last_jitter]_vars

\* a third sleep of a call with a positive base delay, after a plain request error
C4_Witness ==
    /\ caller = "top" /\ attempt = 3 /\ base_delay > 0 /\ Len(trace) = 6
    /\ trace[5].raised = "TooManyRedirects" /\ last_jitter > 0

\* C18: the sleeps of a call lie between its attempts: attempts and sleeps alternate,
\* starting with an attempt; a finished call (returned or raised) ends with an attempt,
\* so k attempts were separated by k - 1 sleeps; every sleep is followed by a further
\* attempt the loop still permits.
C18_SleepsOnlyBetweenAttempts ==
    /\ \A i \in 1 .. Len(trace) : IF i % 2 = 1 THEN IsGet(trace[i]) ELSE ~IsGet(trace[i])
    /\ rpc \in {"returned", "raised"} =>
          /\ Len(trace) % 2 = 1
          /\ Cardinality(SleepIdx) = Cardinality(GetIdx) - 1
    /\ rpc = "loop" => Cardinality(SleepIdx) = Cardinality(GetIdx)
    /\ \A i \in SleepIdx : i \div 2 <= max_retries

\* a success at the third attempt, and an exhausted call of four attempts
C18_Witness ==
    /\ caller = "top" /\ max_retries = 3
    /\ \/ rpc = "returned" /\ Cardinality(GetIdx) = 3 /\ Cardinality(SleepIdx) = 2
       \/ rpc = "raised" /\ Cardinality(GetIdx) = 4 /\ Cardinality(SleepIdx) = 3

\* ------------------------------------------------------------ properties of the resolvers
\* a name that is missing, empty or made only of whitespace
IsBlankText(name) == name = NoneVal \/ \A i \in 1 .. Len(name) : name[i] = " "

\* C5: for a name that is missing, empty or made only of whitespace, get_institution_guid
\* and get_collection_guid return None and issue no network request.
C5_BlankNameNoRequest ==
    \A k \in Kinds :
        lookup[k].called /\ IsBlankText(lookup[k].name) =>
            /\ guid[k] = NoneVal
            /\ lookup[k].gets = 0 /\ lookup[k].raised = "none"
            /\ caller # k

\* both resolvers were called with blank names, of different kinds, and the URL is built
C5_Witness ==
    /\ bpc = "done"
    /\ lookup["institution"].called /\ lookup["institution"].name = <<" ">>
    /\ lookup["collection"].called /\ lookup["collection"].name = NoneVal
    /\ guid["institution"] = NoneVal /\ guid["collection"] = NoneVal

\* C6: whatever the lookup's outcome, the resolvers raise no error and
\* generate_gbif_search_url does not end in an exception.
C6_ResolutionNeverAborts ==
    /\ \A k \in Kinds : lookup[k].raised = "none"
    /\ bpc # "raised"

\* ------------------------------------------------------------ properties of the URL
\* the query string of a URL, cut at its "&" and each part at its first "="
RECURSIVE SplitAmp(_)
SplitAmp(q) ==
    IF \A i \in 1 .. Len(q) : q[i] # "&" THEN <<q>>
    ELSE LET n == CHOOSE i \in 1 .. Len(q) : q[i] = "&" /\ \A m \in 1 .. i - 1 : q[m] # "&"
         IN  <<SubSeq(q, 1, n - 1)>> \o SplitAmp(SubSeq(q, n + 1, Len(q)))

ParamOf(part) ==
    IF \A i \in 1 .. Len(part) : part[i] # "=" THEN [k |-> part, v |-> <<>>]
    ELSE LET n == CHOOSE i \in 1 .. Len(part) :
                      part[i] = "=" /\ \A m \in 1 .. i - 1 : part[m] # "="
         IN  [k |-> SubSeq(part, 1, n - 1), v |-> SubSeq(part, n + 1, Len(part))]

UrlParams(u) ==
    LET parts == SplitAmp(SubSeq(u, 3, Len(u)))
    IN  [i \in 1 .. Len(parts) |-> ParamOf(parts[i])]

\* the values the URL gives for a key, one per occurrence
Occurrences(u, key) == {i \in 1 .. Len(UrlParams(u)) : UrlParams(u)[i].k = <<key>>}
ValuesFor(u, key) == {UrlParams(u)[i].v : i \in Occurrences(u, key)}

\* C7: keys of the language model's answer outside the recognized set are dropped: the
\* fields of a translated search, and the URL parameters made from them, have
\* recognized keys only.
C7_OnlyRecognizedKeys ==
    /\ tpc \in {"translated", "generating"} => Keys(fields) \subseteq RecognizedKeys
    /\ bpc = "done" =>
          /\ Keys(processed_fields) \subseteq
                (RecognizedKeys \ Kinds) \cup {"institutionKey", "collectionKey"}
          /\ \A i \in 1 .. Len(UrlParams(url)) :
                \E k \in (RecognizedKeys \ Kinds) \cup
                          {"institutionKey", "collectionKey", "limit", "offset",
                           "basisOfRecord", "institutionCode", "collectionCode"} :
                    UrlParams(url)[i].k = <<k>>

\* C8: the URL has no institution and no collection parameter; without an override it
\* has an institutionKey (collectionKey) parameter exactly when the resolver returned a
\* match for the institution (collection) name.
C8_KeyIffResolved ==
    bpc = "done" =>
        /\ Occurrences(url, "institution") = {}
        /\ Occurrences(url, "collection") = {}
        /\ institution_key = NoneVal =>
              (Occurrences(url, "institutionKey") # {} <=> guid["institution"] # NoneVal)
        /\ Occurrences(url, "collectionKey") # {} <=> guid["collection"] # NoneVal

\* C9: with an institution-key override the URL filters on institutionKey=<override>
\* and carries no other institutionKey value, whatever name resolution gave (stated
\* for fields whose keys are all recognized, so that only the resolver can bring
\* another identifier).
C9_OverrideOnly ==
    bpc = "done" /\ Truthy(institution_key) /\ Keys(fields) \subseteq RecognizedKeys =>
        ValuesFor(url, "institutionKey") = {institution_key}

\* C10: every URL carries limit=300, offset=<the given offset> and
\* basisOfRecord=PRESERVED_SPECIMEN, each exactly once, whatever the fields hold.
C10_FixedParameters ==
    bpc = "done" =>
        /\ Cardinality(Occurrences(url, "limit")) = 1
        /\ ValuesFor(url, "limit") = {<<"3", "0", "0">>}
        /\ Cardinality(Occurrences(url, "offset")) = 1
        /\ ValuesFor(url, "offset") = {Str(offset)}
        /\ Cardinality(Occurrences(url, "basisOfRecord")) = 1
        /\ ValuesFor(url, "basisOfRecord") = {<<"PRESERVED_SPECIMEN">>}

\* ------------------------------------------------------------ properties of a session
\* C11: two calls of generate_gbif_search_url with identical arguments (fields,
\* institution key, institution code, collection code, offset) return the same URL:
\* a call of the search in progress that has the offset of the search's first call
\* (the fields and the three settings are those of the first call) returns its URL.
C11_BuilderDeterministic ==
    (tpc = "generating" /\ bpc = "done" /\ first_fetch.made /\ offset = first_fetch.offset)
        => url = first_fetch.url

\* C12: "Next" is enabled only on a shown page of exactly 300 rows and "Previous" only
\* when the offset of the shown page is greater than 0; a button is clicked only where
\* it is enabled; its handler moves the page counter by one, and the fetch that
\* follows has the offset of the fetch before it plus 300 (Next) or minus 300
\* (Previous).
C12_PagingControls ==
    /\ [](tpc = "shown" /\ view.controls =>
            /\ view.table
            /\ view.next => view.rows = PageSize
            /\ view.prev => current_page * PageSize > 0 /\ offset > 0)
    /\ [][/\ (click = "none" /\ click' = "next") => view.table /\ view.rows = PageSize
          /\ (click = "none" /\ click' = "prev") => offset > 0
          /\ tpc' = "rerun" =>
                /\ click \in {"next", "prev"}
                /\ click = "next" => current_page' = current_page + 1
                /\ click = "prev" => current_page' = current_page - 1
          /\ (tpc = "rerun" /\ tpc' = "generating") =>
                /\ current_page > offset \div PageSize => offset' = offset + PageSize
                /\ current_page < offset \div PageSize => offset' = offset - PageSize
                /\ current_page # offset \div PageSize]_vars

\* the second page of a search, full, reached with "Next": both buttons are enabled
C12_Witness ==
    /\ tpc = "shown" /\ run = "page" /\ current_page = 1 /\ offset = PageSize
    /\ view.controls /\ view.next /\ view.prev /\ view.rows = PageSize

\* C13: a response whose result list is empty gives a page of zero rows that is not
\* full, and no error is reported for it.  (The message "no_values" is the st.error
\* that generate_table has for the empty list and for nothing else.)
C13_EmptyListIsEmptyPage ==
    (view.msg = "no_values" \/ (view.table /\ view.rows = 0)) =>
        /\ view.table /\ view.rows = 0 /\ ~view.next
        /\ view.msg = "none"

\* C14: a submitted search calls the language model exactly once; when its answer
\* cannot be parsed the error is shown, the model is not called again, and no
\* resolver lookup, no URL and no occurrence-search request is made for that search.
C14_TranslationOneShot ==
    /\ oracle_calls = IF tpc = "clicked" THEN 0 ELSE 1
    /\ (tpc # "clicked" /\ extract_query_fields(content).raised # "none") =>
          /\ fields = NoFields
          /\ tpc \in {"failed", "skipped"}
          /\ view.msg = "translation_failed" /\ ~view.table /\ ~view.controls
          /\ rpc = "idle" /\ trace = <<>>
          /\ bpc = "idle" /\ url = <<>>
          /\ \A k \in Kinds : ~lookup[k].called
          /\ ~first_fetch.made

\* an answer that is no JSON, to a search made after an earlier one was paged through
C14_Witness ==
    /\ tpc = "skipped" /\ ~content.raised /\ ~content.json
    /\ view.msg = "translation_failed" /\ oracle_calls = 1
    /\ offset = PageSize

\* C15: every submitted search and every page navigation ends with a result page
\* displayed or with an error or notice the user sees; none ends with neither.
C15_EveryFailureShown ==
    tpc \in {"shown", "skipped"} => view.table \/ view.msg # "none"

\* C16: whatever searches and clicks on "Next" and "Previous" came before, the page
\* counter is never below 0 and the offset of a fetch is the counter times 300: a
\* multiple of 300 that is 0 or more.
C16_OffsetAligned ==
    /\ current_page >= 0
    /\ offset >= 0 /\ offset % PageSize = 0
    /\ tpc \in {"generating", "fetching"} => offset = current_page * PageSize

\* back on the first page with "Previous", after "Next" had led to the second
C16_Witness ==
    /\ tpc = "shown" /\ run = "page" /\ current_page = 0 /\ offset = 0
    /\ view.table /\ ~view.prev

\* the parameters of a URL but its offset
Filters(u) == {UrlParams(u)[i] : i \in {j \in 1 .. Len(UrlParams(u)) :
                                            UrlParams(u)[j].k # <<"offset">>}}

\* C17: the identifiers of a search are derived once: a run of display_results that a
\* click on "Next" or "Previous" started sends no resolver request, and the URL it
\* fetches differs from the URL of the search's first fetch in the offset only.
C17_IdentifiersDerivedOnce ==
    run \in {"click", "page"} =>
        /\ caller \notin Kinds
        /\ \A k \in Kinds : lookup[k].gets = 0
        /\ (bpc = "done" /\ first_fetch.made) => Filters(url) = Filters(first_fetch.url)

\* C19: a new search puts the page counter to 0 and leaves of the fields nothing but
\* what its own translation gave (None when it failed); after a failed translation no
\* page is fetched and none is displayed; the first fetch of a search has offset 0.
C19_SearchResets ==
    /\ [][(tpc = "clicked" /\ tpc' # "clicked") =>
             /\ current_page' = 0
             /\ fields' = extract_query_fields(content).value
             /\ ~first_fetch'.made
             /\ ~view'.table /\ ~view'.controls]_vars
    /\ []((tpc # "clicked" /\ fields = NoFields) =>
              (~view.table /\ ~first_fetch.made /\ rpc = "idle" /\ bpc = "idle"))
    /\ [](first_fetch.made => (first_fetch.offset = 0 /\ fields # NoFields))
    /\ []((run = "search" /\ tpc \in {"generating", "fetching"}) => offset = 0)

\* the language model fails on a search made while the third page of an earlier search
\* was shown: nothing is fetched, the counter is back at 0
C19_Witness ==
    /\ tpc = "skipped" /\ content.raised /\ fields = NoFields
    /\ current_page = 0 /\ offset = 2 * PageSize
    /\ ~view.table /\ ~first_fetch.made

\* C20: the user is never left on a page past the first without a way back: whenever a
\* run has ended with the offset above 0, whether it showed records, found none or
\* failed, the button "Previous" is there and enabled.
C20_PreviousAvailable ==
    (tpc = "shown" /\ current_page * PageSize > 0) => view.controls /\ view.prev

\* C21: a result list that is not empty makes a displayed page of as many rows, with
\* no error, also when none of its records has a `key`, or a `recordedBy`, or a `media`.
C21_OptionalFieldsTolerated ==
    (tpc \in {"shown", "rerun"} /\ got.n > 0) =>
        /\ view.table /\ view.rows = got.n
        /\ view.msg = "none"
        /\ view.image = got.media

====
